---- MODULE Spec2Model ----
(***************************************************************************)
(* Model of mzmeta-poc (src/src/main.rs): an SDRF annotation table is read *)
(* into per-row samples, the samples are grouped by their "data file"      *)
(* comment, and the sample list of an mzML stream read from STDIN is       *)
(* replaced by the samples of its first source file while the spectra are  *)
(* written through to STDOUT.                                              *)
(*                                                                         *)
(* Text is modelled as a sequence of one-character strings, so that the    *)
(* prefix tests, bracket splits, trims and replacements of the program are *)
(* computed rather than assumed.                                           *)
(***************************************************************************)
EXTENDS Integers, Sequences, FiniteSets, TLC

VARIABLES
    pc,               \* position of main(): the phase that runs next
    status,           \* "running", "ok", "err" (main returned Err) or "panic"
    cause,            \* what ended the run, "" while it runs or when it succeeds
    sdrf_headers,     \* header line of the SDRF file, as written in the file
    headers,          \* read_sdrf: the normalized column names
    samples,          \* read_sdrf: the SDRFSample rows parsed so far
    index,            \* main: samples_by_data_file
    stdin_opened,     \* MzMLReader::new(io::stdin()) has run
    reader,           \* the reader's metadata: source_files, samples, other
    in_meta,          \* the metadata as it was read from STDIN
    in_groups,        \* the spectrum groups read from STDIN so far, in order
    out_started,      \* MzMLWriter::new(stdout) has run
    out_meta,         \* metadata handed to the writer by copy_metadata_from
    out_groups,       \* the spectrum groups written to STDOUT so far, in order
    n_spectra_so_far, \* write_passthrough: the running count
    reported_total,   \* the count logged by "Wrote {n} spectra", -1 before
    raw_header,       \* one field: a column name as written in the file
    raw_cell,         \* one field: the text of one cell
    field,            \* one field: the SDRFField built from them
    fname,            \* one field: the result of SDRFField::name
    fparam,           \* one field: the result of SDRFField::as_param
    fpc               \* one field: the step that runs next

vars == << pc, status, cause, sdrf_headers, headers, samples, index,
           stdin_opened, reader, in_meta, in_groups, out_started, out_meta,
           out_groups, n_spectra_so_far, reported_total,
           raw_header, raw_cell, field, fname, fparam, fpc >>

runVars == << pc, status, cause, sdrf_headers, headers, samples, index,
              stdin_opened, reader, in_meta, in_groups, out_started, out_meta,
              out_groups, n_spectra_so_far, reported_total >>

fieldVars == << raw_header, raw_cell, field, fname, fparam, fpc >>

(***************************************************************************)
(* Text literals of the program.                                           *)
(***************************************************************************)
STR_label == <<"l", "a", "b", "e", "l">>
STR_data_file == <<"d", "a", "t", "a", " ", "f", "i", "l", "e">>
STR_instrument == <<"i", "n", "s", "t", "r", "u", "m", "e", "n", "t">>
STR_source_name == <<"s", "o", "u", "r", "c", "e", " ", "n", "a", "m", "e">>
PFX_characteristics == <<"c", "h", "a", "r", "a", "c", "t", "e", "r", "i", "s", "t", "i", "c", "s", "[">>
PFX_characteristic == <<"c", "h", "a", "r", "a", "c", "t", "e", "r", "i", "s", "t", "i", "c", "[">>
PFX_comment == <<"c", "o", "m", "m", "e", "n", "t", "[">>
PFX_factor_value == <<"f", "a", "c", "t", "o", "r", " ", "v", "a", "l", "u", "e", "[">>
STR_UNKNOWN_TAG == <<"U", "N", "K", "N", "O", "W", "N", "_", "T", "A", "G">>

(***************************************************************************)
(* The controlled-vocabulary tables of SDRFField::as_param.                *)
(***************************************************************************)
NameTable ==
    << [name |-> <<"o", "r", "g", "a", "n", "i", "s", "m", " ", "p", "a", "r", "t">>,
        cv |-> "EFO", accession |-> 635],
       [name |-> <<"o", "r", "g", "a", "n", "i", "s", "m">>,
        cv |-> "OBI", accession |-> 100026],
       [name |-> <<"d", "e", "v", "e", "l", "o", "p", "m", "e", "n", "t", "a", "l", " ", "s", "t", "a", "g", "e">>,
        cv |-> "EFO", accession |-> 399],
       [name |-> <<"a", "n", "c", "e", "s", "t", "r", "y", " ", "c", "a", "t", "e", "g", "o", "r", "y">>,
        cv |-> "HANCESTRO", accession |-> 4],
       [name |-> <<"c", "e", "l", "l", " ", "t", "y", "p", "e">>,
        cv |-> "EFO", accession |-> 324],
       [name |-> <<"m", "a", "t", "e", "r", "i", "a", "l", " ", "t", "y", "p", "e">>,
        cv |-> "BFO", accession |-> 40],
       [name |-> <<"a", "g", "e">>,
        cv |-> "EFO", accession |-> 246],
       [name |-> <<"d", "i", "s", "e", "a", "s", "e">>,
        cv |-> "EFO", accession |-> 408],
       [name |-> <<"t", "i", "m", "e">>,
        cv |-> "EFO", accession |-> 721],
       [name |-> <<"t", "e", "c", "h", "n", "o", "l", "o", "g", "y", " ", "t", "y", "p", "e">>,
        cv |-> "EFO", accession |-> 5521],
       [name |-> <<"b", "i", "o", "l", "o", "g", "i", "c", "a", "l", " ", "r", "e", "p", "l", "i", "c", "a", "t", "e">>,
        cv |-> "EFO", accession |-> 2091],
       [name |-> <<"t", "e", "c", "h", "n", "i", "c", "a", "l", " ", "r", "e", "p", "l", "i", "c", "a", "t", "e">>,
        cv |-> "MS", accession |-> 1001808],
       [name |-> <<"f", "r", "a", "c", "t", "i", "o", "n", " ", "i", "d", "e", "n", "t", "i", "f", "i", "e", "r">>,
        cv |-> "MS", accession |-> 1000858],
       [name |-> <<"f", "i", "l", "e", " ", "u", "r", "i">>,
        cv |-> "PRIDE", accession |-> 577] >>
LabelTable ==
    << [code |-> <<"T", "M", "T", "1", "2", "6">>, accession |-> 1002616,
        name |-> <<"T", "M", "T", " ", "r", "e", "a", "g", "e", "n", "t", " ", "1", "2", "6">>],
       [code |-> <<"T", "M", "T", "1", "2", "7">>, accession |-> 1002617,
        name |-> <<"T", "M", "T", " ", "r", "e", "a", "g", "e", "n", "t", " ", "1", "2", "7">>],
       [code |-> <<"T", "M", "T", "1", "2", "8">>, accession |-> 1002618,
        name |-> <<"T", "M", "T", " ", "r", "e", "a", "g", "e", "n", "t", " ", "1", "2", "8">>],
       [code |-> <<"T", "M", "T", "1", "2", "9">>, accession |-> 1002619,
        name |-> <<"T", "M", "T", " ", "r", "e", "a", "g", "e", "n", "t", " ", "1", "2", "9">>],
       [code |-> <<"T", "M", "T", "1", "3", "0">>, accession |-> 1002620,
        name |-> <<"T", "M", "T", " ", "r", "e", "a", "g", "e", "n", "t", " ", "1", "3", "0">>],
       [code |-> <<"T", "M", "T", "1", "3", "1">>, accession |-> 1002621,
        name |-> <<"T", "M", "T", " ", "r", "e", "a", "g", "e", "n", "t", " ", "1", "3", "1">>],
       [code |-> <<"T", "M", "T", "1", "2", "7", "N">>, accession |-> 1002763,
        name |-> <<"T", "M", "T", " ", "r", "e", "a", "g", "e", "n", "t", " ", "1", "2", "7", "N">>],
       [code |-> <<"T", "M", "T", "1", "2", "7", "C">>, accession |-> 1002764,
        name |-> <<"T", "M", "T", " ", "r", "e", "a", "g", "e", "n", "t", " ", "1", "2", "7", "C">>],
       [code |-> <<"T", "M", "T", "1", "2", "8", "N">>, accession |-> 1002765,
        name |-> <<"T", "M", "T", " ", "r", "e", "a", "g", "e", "n", "t", " ", "1", "2", "8", "N">>],
       [code |-> <<"T", "M", "T", "1", "2", "8", "C">>, accession |-> 1002766,
        name |-> <<"T", "M", "T", " ", "r", "e", "a", "g", "e", "n", "t", " ", "1", "2", "8", "C">>],
       [code |-> <<"T", "M", "T", "1", "2", "9", "N">>, accession |-> 1002767,
        name |-> <<"T", "M", "T", " ", "r", "e", "a", "g", "e", "n", "t", " ", "1", "2", "9", "N">>],
       [code |-> <<"T", "M", "T", "1", "2", "9", "C">>, accession |-> 1002768,
        name |-> <<"T", "M", "T", " ", "r", "e", "a", "g", "e", "n", "t", " ", "1", "2", "9", "C">>],
       [code |-> <<"T", "M", "T", "1", "3", "0", "N">>, accession |-> 1002769,
        name |-> <<"T", "M", "T", " ", "r", "e", "a", "g", "e", "n", "t", " ", "1", "3", "0", "N">>],
       [code |-> <<"T", "M", "T", "1", "3", "0", "C">>, accession |-> 1002770,
        name |-> <<"T", "M", "T", " ", "r", "e", "a", "g", "e", "n", "t", " ", "1", "3", "0", "C">>] >>
(***************************************************************************)
(* str operations used by the program.                                     *)
(***************************************************************************)
\* str::starts_with
StartsWith(s, p) ==
    Len(s) >= Len(p) /\ SubSeq(s, 1, Len(p)) = p

\* Position of the first c in s, 0 when there is none.
FirstIndexOf(s, c) ==
    IF \E i \in 1..Len(s) : s[i] = c
    THEN CHOOSE i \in 1..Len(s) : s[i] = c /\ \A j \in 1..(i - 1) : s[j] # c
    ELSE 0

\* Position of the last c in s, 0 when there is none.
LastIndexOf(s, c) ==
    IF \E i \in 1..Len(s) : s[i] = c
    THEN CHOOSE i \in 1..Len(s) : s[i] = c /\ \A j \in (i + 1)..Len(s) : s[j] # c
    ELSE 0

\* str::split_once(c): None, or the text before and after the first c.
SplitOnce(s, c) ==
    LET i == FirstIndexOf(s, c)
    IN  IF i = 0 THEN [some |-> FALSE]
        ELSE [some |-> TRUE, before |-> SubSeq(s, 1, i - 1),
              after |-> SubSeq(s, i + 1, Len(s))]

\* str::rsplit_once(c): None, or the text before and after the last c.
RSplitOnce(s, c) ==
    LET i == LastIndexOf(s, c)
    IN  IF i = 0 THEN [some |-> FALSE]
        ELSE [some |-> TRUE, before |-> SubSeq(s, 1, i - 1),
              after |-> SubSeq(s, i + 1, Len(s))]

\* str::trim: the text without its leading and trailing white space.
Trim(s) ==
    IF \A i \in 1..Len(s) : s[i] = " " THEN << >>
    ELSE LET a == CHOOSE i \in 1..Len(s) :
                      s[i] # " " /\ \A j \in 1..(i - 1) : s[j] = " "
             b == CHOOSE i \in 1..Len(s) :
                      s[i] # " " /\ \A j \in (i + 1)..Len(s) : s[j] = " "
         IN  SubSeq(s, a, b)

\* str::replace(from, to): every non-overlapping match, left to right.
RECURSIVE Replace(_, _, _)
Replace(s, from, to) ==
    IF s = << >> THEN << >>
    ELSE IF StartsWith(s, from)
         THEN to \o Replace(SubSeq(s, Len(from) + 1, Len(s)), from, to)
         ELSE << Head(s) >> \o Replace(Tail(s), from, to)

UpperCase == << "A", "B", "C", "D", "E", "F", "G", "H", "I", "J", "K", "L", "M",
                "N", "O", "P", "Q", "R", "S", "T", "U", "V", "W", "X", "Y", "Z" >>

LowerCase == << "a", "b", "c", "d", "e", "f", "g", "h", "i", "j", "k", "l", "m",
                "n", "o", "p", "q", "r", "s", "t", "u", "v", "w", "x", "y", "z" >>

\* str::to_lowercase, on ASCII text.
ToLowercase(s) ==
    [i \in 1..Len(s) |->
        IF \E k \in 1..26 : UpperCase[k] = s[i]
        THEN LowerCase[CHOOSE k \in 1..26 : UpperCase[k] = s[i]]
        ELSE s[i]]

(***************************************************************************)
(* mzdata's Value, as the program uses it: val.parse() sniffs the type of  *)
(* a cell (empty, integer, otherwise text) and as_str() prints it back.    *)
(* The cells of this model hold no float or boolean literal.               *)
(***************************************************************************)
Digits == << "0", "1", "2", "3", "4", "5", "6", "7", "8", "9" >>

IsDigit(c) == \E k \in 1..10 : Digits[k] = c

DigitValue(c) == (CHOOSE k \in 1..10 : Digits[k] = c) - 1

\* The text is an i64 literal: an optional sign, then one or more digits.
IsIntLiteral(s) ==
    LET body == IF s # << >> /\ Head(s) \in {"+", "-"} THEN Tail(s) ELSE s
    IN  body # << >> /\ \A i \in 1..Len(body) : IsDigit(body[i])

RECURSIVE DigitsToNat(_)
DigitsToNat(s) ==
    IF s = << >> THEN 0
    ELSE 10 * DigitsToNat(SubSeq(s, 1, Len(s) - 1)) + DigitValue(s[Len(s)])

RECURSIVE NatToDigits(_)
NatToDigits(n) ==
    IF n < 10 THEN << Digits[n + 1] >>
    ELSE NatToDigits(n \div 10) \o << Digits[(n % 10) + 1] >>

ValueEmpty == [kind |-> "Empty"]

\* val.parse().unwrap()
ParseValue(s) ==
    IF s = << >> THEN ValueEmpty
    ELSE IF IsIntLiteral(s)
         THEN [kind |-> "Int",
               int |-> IF Head(s) = "-" THEN 0 - DigitsToNat(Tail(s))
                       ELSE IF Head(s) = "+" THEN DigitsToNat(Tail(s))
                       ELSE DigitsToNat(s)]
         ELSE [kind |-> "String", str |-> s]

\* Value::as_str
AsStr(v) ==
    CASE v.kind = "Empty" -> << >>
      [] v.kind = "Int" -> IF v.int < 0 THEN << "-" >> \o NatToDigits(0 - v.int)
                           ELSE NatToDigits(v.int)
      [] v.kind = "String" -> v.str

(***************************************************************************)
(* SDRFField and SDRFSample.                                               *)
(***************************************************************************)
\* SDRFField::name: the column name without its class prefix and brackets.
\* ok = FALSE stands for the panic of an unwrap() on None.
Name(f) ==
    IF f.field_class \in {"Innate", "Factor"}
    THEN [ok |-> TRUE, val |-> f.name]
    ELSE LET open == SplitOnce(f.name, "[")
         IN  IF ~open.some THEN [ok |-> FALSE]
             ELSE LET close == RSplitOnce(open.after, "]")
                  IN  IF ~close.some THEN [ok |-> FALSE]
                      ELSE [ok |-> TRUE, val |-> Trim(close.before)]

\* The match of as_param: Some((curie, name, value)) or None.
CurieOf(f, name) ==
    IF \E k \in 1..Len(NameTable) : NameTable[k].name = name
    THEN LET e == NameTable[CHOOSE k \in 1..Len(NameTable) :
                                NameTable[k].name = name]
         IN  [some |-> TRUE, cv |-> e.cv, accession |-> e.accession,
              name |-> name, value |-> f.value]
    ELSE IF name = STR_label
              /\ \E k \in 1..Len(LabelTable) :
                     LabelTable[k].code = AsStr(f.value)
         THEN LET e == LabelTable[CHOOSE k \in 1..Len(LabelTable) :
                                     LabelTable[k].code = AsStr(f.value)]
              IN  [some |-> TRUE, cv |-> "MS", accession |-> e.accession,
                   name |-> e.name, value |-> ValueEmpty]
         ELSE [some |-> FALSE]

\* SDRFField::as_param: a cvParam or a userParam; ok = FALSE when name() panics.
AsParam(f) ==
    LET n == Name(f)
    IN  IF ~n.ok THEN [ok |-> FALSE]
        ELSE LET c == CurieOf(f, n.val)
             IN  IF c.some
                 THEN [ok |-> TRUE,
                       val |-> [kind |-> "cvParam", cv |-> c.cv,
                                accession |-> c.accession, name |-> c.name,
                                value |-> c.value]]
                 ELSE [ok |-> TRUE,
                       val |-> [kind |-> "userParam", name |-> f.name,
                                value |-> f.value]]

\* SDRFSample::default()
DefaultSample ==
    [name |-> << >>, fields |-> << >>, characteristics |-> << >>,
     comments |-> << >>, factors |-> << >>]

\* SDRFSample::data_file: the value of the first comment named "data file".
\* ok = FALSE when name() panics on a comment examined before one is found.
RECURSIVE FindDataFile(_)
FindDataFile(cs) ==
    IF cs = << >> THEN [ok |-> TRUE, some |-> FALSE]
    ELSE LET n == Name(Head(cs))
         IN  IF ~n.ok THEN [ok |-> FALSE]
             ELSE IF n.val = STR_data_file
                  THEN [ok |-> TRUE, some |-> TRUE, val |-> AsStr(Head(cs).value)]
                  ELSE FindDataFile(Tail(cs))

DataFile(s) == FindDataFile(s.comments)

\* The loop of as_sample over the chained fields: the params pushed, or a panic.
RECURSIVE CollectParams(_, _)
CollectParams(fs, params) ==
    IF fs = << >> THEN [ok |-> TRUE, val |-> params]
    ELSE LET n == Name(Head(fs))
         IN  IF ~n.ok THEN [ok |-> FALSE]
             ELSE IF n.val \in {STR_data_file, STR_instrument}
                  THEN CollectParams(Tail(fs), params)
                  ELSE CollectParams(Tail(fs),
                                     Append(params, AsParam(Head(fs)).val))

\* SDRFSample::as_sample
AsSample(s) ==
    LET ps == CollectParams(s.fields \o s.characteristics \o s.comments
                                \o s.factors, << >>)
    IN  IF ~ps.ok THEN [ok |-> FALSE]
        ELSE [ok |-> TRUE,
              val |-> [id |-> ToLowercase(Replace(s.name, << " " >>, << "_" >>)),
                       name |-> s.name,
                       params |-> ps.val]]

(***************************************************************************)
(* read_sdrf                                                               *)
(***************************************************************************)
\* The normalization of one column name.
NormalizeHeader(h) == Replace(h, << " ", "]" >>, << "]" >>)

\* The class a column name selects in the match of read_sdrf.
ClassOf(x) ==
    IF x = STR_source_name THEN "SourceName"
    ELSE IF StartsWith(x, PFX_characteristics) \/ StartsWith(x, PFX_characteristic)
         THEN "Characteristic"
    ELSE IF StartsWith(x, PFX_comment) THEN "Comment"
    ELSE IF StartsWith(x, PFX_factor_value) THEN "Factor"
    ELSE "Innate"

\* The SDRFField built for a column that is not "source name".
MakeField(name, val) ==
    [name |-> name, field_class |-> ClassOf(name), value |-> ParseValue(val)]

\* One iteration of the loop over headers.iter().zip(row.iter()).
AddCell(sample, name, val) ==
    CASE ClassOf(name) = "SourceName" -> [sample EXCEPT !.name = val]
      [] ClassOf(name) = "Characteristic" ->
            [sample EXCEPT !.characteristics = Append(@, MakeField(name, val))]
      [] ClassOf(name) = "Comment" ->
            [sample EXCEPT !.comments = Append(@, MakeField(name, val))]
      [] ClassOf(name) = "Factor" ->
            [sample EXCEPT !.factors = Append(@, MakeField(name, val))]
      [] OTHER -> [sample EXCEPT !.fields = Append(@, MakeField(name, val))]

RECURSIVE AddCells(_, _, _)
AddCells(sample, hs, row) ==
    IF hs = << >> \/ row = << >> THEN sample
    ELSE AddCells(AddCell(sample, Head(hs), Head(row)), Tail(hs), Tail(row))

\* The SDRFSample of one record.
RowToSample(hs, row) == AddCells(DefaultSample, hs, row)

(***************************************************************************)
(* organize_by_data_file                                                   *)
(***************************************************************************)
EmptyIndex == [k \in {} |-> << >>]

\* index.entry(key).or_default().push(s)
PushEntry(idx, key, s) ==
    [k \in (DOMAIN idx) \cup {key} |->
        IF k = key
        THEN Append(IF key \in DOMAIN idx THEN idx[key] ELSE << >>, s)
        ELSE idx[k]]

\* The loop of organize_by_data_file: the index, or the unwrap() that panicked.
RECURSIVE Organize(_, _)
Organize(ss, idx) ==
    IF ss = << >> THEN [ok |-> TRUE, index |-> idx]
    ELSE LET d == DataFile(Head(ss))
         IN  IF ~d.ok THEN [ok |-> FALSE, kind |-> "panic_name_unwrap"]
             ELSE IF ~d.some THEN [ok |-> FALSE, kind |-> "panic_data_file_unwrap"]
                  ELSE Organize(Tail(ss), PushEntry(idx, d.val, Head(ss)))

OrganizeByDataFile(sdrf_samples) == Organize(sdrf_samples, EmptyIndex)

(***************************************************************************)
(* update_sample_list                                                      *)
(***************************************************************************)
\* samples_of.extend(samples.iter().map(|s| s.as_sample())): the list after
\* the call, and whether as_sample panicked on the way.
RECURSIVE ExtendSamples(_, _)
ExtendSamples(samples_of, ss) ==
    IF ss = << >> THEN [ok |-> TRUE, val |-> samples_of]
    ELSE LET x == AsSample(Head(ss))
         IN  IF ~x.ok THEN [ok |-> FALSE, val |-> samples_of]
             ELSE ExtendSamples(Append(samples_of, x.val), Tail(ss))

\* Variant of update_sample_list without the clear(): the built samples are
\* added to those already declared.
UpdateSampleListMerging(samples_of, ss) == ExtendSamples(samples_of, ss)

\* samples_of.clear(), then the extend.
UpdateSampleList(samples_of, ss) == ExtendSamples(<< >>, ss)

(***************************************************************************)
(* write_passthrough, on the reader and writer of mzdata                   *)
(***************************************************************************)
\* writer.copy_metadata_from(&reader_iter): the metadata the writer is given.
CopyMetadataFrom(meta) == meta

\* writer.write_group_owned(group): the groups on STDOUT after a good write.
WriteGroupOwned(written, group) == Append(written, group)

\* Variant of the count that adds one per group instead of its spectra.
CountGroups(n, group) == n + 1

\* n_spectra_so_far += group.total_spectra()
CountSpectra(n, group) == n + group.total_spectra

(***************************************************************************)
(* Bounds and the inputs of a run.                                         *)
(***************************************************************************)
MaxRows == 2

MaxGroups == 2

MaxSourceFiles == 2

MaxPreSamples == 1

MaxBodyLen == 2

\* Sequences over S of length at most n.
SeqUpTo(S, n) == UNION {[1..k -> S] : k \in 0..n}

STR_organism == NameTable[2].name

H_data_file == PFX_comment \o STR_data_file \o << "]" >>

H_data_file_spaced == PFX_comment \o STR_data_file \o << " ", "]" >>

H_organism == PFX_characteristics \o STR_organism \o << "]" >>

H_organism_unclosed == PFX_characteristics \o STR_organism

H_comment_unclosed == PFX_comment \o << "x" >>

H_factor_instrument == PFX_factor_value \o STR_instrument \o << "]" >>

\* Header lines of the SDRF files a run is given.
HeaderRows ==
    { << H_data_file >>,
      << STR_source_name, H_data_file >>,
      << H_data_file_spaced, H_organism >>,
      << H_data_file, H_organism_unclosed >>,
      << H_comment_unclosed, H_data_file >>,
      << H_data_file, H_comment_unclosed >>,
      << STR_source_name, H_organism >>,
      << H_data_file, H_factor_instrument >>,
      << STR_instrument, H_data_file >> }

\* Cell texts: sample names under "source name", file names elsewhere.
NameCells == { << "S", " ", "1" >>, << "s", "2" >> }

FileCells == { << "r", "1" >>, << "0", "7" >> }

CellsFor(h) == IF h = STR_source_name THEN NameCells ELSE FileCells

\* The records a file with these headers can hold: one cell per column.
RecordsFor(hs) ==
    {r \in [1..Len(hs) -> NameCells \cup FileCells] :
        \A i \in 1..Len(hs) : r[i] \in CellsFor(hs[i])}

\* Source-file names an mzML header declares.
SourceFileNames == { << "r", "1" >>, << "7" >> }

\* A sample an mzML header declares before it is patched.
DeclaredSample ==
    [id |-> << "o", "l", "d" >>, name |-> << "O", "l", "d" >>, params |-> << >>]

\* The metadata MzMLReader::new finds at the head of STDIN.
Metadata ==
    [source_files : SeqUpTo(SourceFileNames, MaxSourceFiles),
     samples : SeqUpTo({DeclaredSample}, MaxPreSamples),
     other : {"run A", "run B"}]

NoMetadata == [source_files |-> << >>, samples |-> << >>, other |-> "none"]

\* Spectrum groups of the stream, each reporting its number of spectra.
SpectrumGroups ==
    { [id |-> "g1", total_spectra |-> 1], [id |-> "g2", total_spectra |-> 3] }

NoCause == [kind |-> "none"]

NoField == [field_class |-> "none"]

Pending == [pending |-> TRUE]

(***************************************************************************)
(* The run of main().                                                      *)
(***************************************************************************)
FieldIdle ==
    /\ raw_header = << >>
    /\ raw_cell = << >>
    /\ field = NoField
    /\ fname = Pending
    /\ fparam = Pending
    /\ fpc = "idle"

Init ==
    /\ pc = "read_headers"
    /\ status = "running"
    /\ cause = NoCause
    /\ sdrf_headers \in HeaderRows
    /\ headers = << >>
    /\ samples = << >>
    /\ index = EmptyIndex
    /\ stdin_opened = FALSE
    /\ reader = NoMetadata
    /\ in_meta = NoMetadata
    /\ in_groups = << >>
    /\ out_started = FALSE
    /\ out_meta = NoMetadata
    /\ out_groups = << >>
    /\ n_spectra_so_far = 0
    /\ reported_total = -1
    /\ FieldIdle

\* The run ends here: main returns Err, or an unwrap() panics.
Abort(how, why) ==
    /\ status' = how
    /\ cause' = why
    /\ UNCHANGED pc

\* read_sdrf: the header line is read and normalized.
ReadHeaders ==
    /\ pc = "read_headers" /\ status = "running"
    /\ headers' = [i \in 1..Len(sdrf_headers) |-> NormalizeHeader(sdrf_headers[i])]
    /\ pc' = "read_records"
    /\ UNCHANGED << status, cause, sdrf_headers, samples, index, stdin_opened,
                    reader, in_meta, in_groups, out_started, out_meta,
                    out_groups, n_spectra_so_far, reported_total, fieldVars >>

\* read_sdrf: one record is read and becomes an SDRFSample.
ReadRecord ==
    /\ pc = "read_records" /\ status = "running"
    /\ Len(samples) < MaxRows
    /\ \E row \in RecordsFor(headers) :
           samples' = Append(samples, RowToSample(headers, row))
    /\ UNCHANGED << pc, status, cause, sdrf_headers, headers, index,
                    stdin_opened, reader, in_meta, in_groups, out_started,
                    out_meta, out_groups, n_spectra_so_far, reported_total,
                    fieldVars >>

\* read_sdrf: the csv reader fails on record i; the error is returned.
ReadRecordError ==
    /\ pc = "read_records" /\ status = "running"
    /\ Len(samples) < MaxRows
    /\ Abort("err", [kind |-> "csv_error", line |-> Len(samples)])
    /\ UNCHANGED << sdrf_headers, headers, samples, index, stdin_opened,
                    reader, in_meta, in_groups, out_started, out_meta,
                    out_groups, n_spectra_so_far, reported_total, fieldVars >>

\* read_sdrf: no record is left; Ok(samples) is returned.
ReadEnd ==
    /\ pc = "read_records" /\ status = "running"
    /\ pc' = "organize"
    /\ UNCHANGED << status, cause, sdrf_headers, headers, samples, index,
                    stdin_opened, reader, in_meta, in_groups, out_started,
                    out_meta, out_groups, n_spectra_so_far, reported_total,
                    fieldVars >>

\* main: samples_by_data_file = organize_by_data_file(samples)
OrganizeSamples ==
    /\ pc = "organize" /\ status = "running"
    /\ LET r == OrganizeByDataFile(samples)
       IN  IF r.ok
           THEN /\ index' = r.index
                /\ pc' = "open_reader"
                /\ UNCHANGED << status, cause >>
           ELSE /\ Abort("panic", [kind |-> r.kind])
                /\ UNCHANGED index
    /\ UNCHANGED << sdrf_headers, headers, samples, stdin_opened, reader,
                    in_meta, in_groups, out_started, out_meta, out_groups,
                    n_spectra_so_far, reported_total, fieldVars >>

\* Variant of main that makes the writer as soon as the reader is made,
\* before the source file is looked up and the sample list replaced.
OpenReaderAndWriter ==
    /\ pc = "open_reader" /\ status = "running"
    /\ \E m \in Metadata :
           /\ in_meta' = m
           /\ reader' = m
           /\ out_meta' = CopyMetadataFrom(m)
    /\ stdin_opened' = TRUE
    /\ out_started' = TRUE
    /\ pc' = "pick_samples"
    /\ UNCHANGED << status, cause, sdrf_headers, headers, samples, index,
                    in_groups, out_groups, n_spectra_so_far, reported_total,
                    fieldVars >>

\* main: reader = MzMLReader::new(io::stdin()), which reads the metadata.
OpenReader ==
    /\ pc = "open_reader" /\ status = "running"
    /\ \E m \in Metadata :
           /\ in_meta' = m
           /\ reader' = m
    /\ stdin_opened' = TRUE
    /\ pc' = "pick_samples"
    /\ UNCHANGED << status, cause, sdrf_headers, headers, samples, index,
                    in_groups, out_started, out_meta, out_groups,
                    n_spectra_so_far, reported_total, fieldVars >>

\* main: the first source file, and the samples the index holds for it.
PickSamples ==
    /\ pc = "pick_samples" /\ status = "running"
    /\ IF reader.source_files = << >>
       THEN Abort("panic", [kind |-> "panic_source_file_unwrap"])
       ELSE IF Head(reader.source_files) \notin DOMAIN index
            THEN Abort("panic", [kind |-> "panic_get_unwrap"])
            ELSE /\ pc' = "update_sample_list"
                 /\ UNCHANGED << status, cause >>
    /\ UNCHANGED << sdrf_headers, headers, samples, index, stdin_opened,
                    reader, in_meta, in_groups, out_started, out_meta,
                    out_groups, n_spectra_so_far, reported_total, fieldVars >>

\* main: update_sample_list(&mut reader, &samples)
PatchSampleList ==
    /\ pc = "update_sample_list" /\ status = "running"
    /\ LET r == UpdateSampleList(reader.samples,
                                 index[Head(reader.source_files)])
       IN  /\ reader' = [reader EXCEPT !.samples = r.val]
           /\ IF r.ok
              THEN /\ pc' = "write_start"
                   /\ UNCHANGED << status, cause >>
              ELSE Abort("panic", [kind |-> "panic_name_unwrap"])
    /\ UNCHANGED << sdrf_headers, headers, samples, index, stdin_opened,
                    in_meta, in_groups, out_started, out_meta, out_groups,
                    n_spectra_so_far, reported_total, fieldVars >>

\* write_passthrough: the writer is made and given the reader's metadata.
WriteStart ==
    /\ pc = "write_start" /\ status = "running"
    /\ out_started' = TRUE
    /\ out_meta' = CopyMetadataFrom(reader)
    /\ n_spectra_so_far' = 0
    /\ pc' = "write_loop"
    /\ UNCHANGED << status, cause, sdrf_headers, headers, samples, index,
                    stdin_opened, reader, in_meta, in_groups, out_groups,
                    reported_total, fieldVars >>

\* write_passthrough: one group is read, counted and written.
WriteGroup ==
    /\ pc = "write_loop" /\ status = "running"
    /\ Len(in_groups) < MaxGroups
    /\ \E g \in SpectrumGroups :
           /\ in_groups' = Append(in_groups, g)
           /\ n_spectra_so_far' = CountSpectra(n_spectra_so_far, g)
           /\ out_groups' = WriteGroupOwned(out_groups, g)
    /\ UNCHANGED << pc, status, cause, sdrf_headers, headers, samples, index,
                    stdin_opened, reader, in_meta, out_started, out_meta,
                    reported_total, fieldVars >>

\* write_passthrough: write_group_owned fails; the error is returned.
WriteGroupError ==
    /\ pc = "write_loop" /\ status = "running"
    /\ Len(in_groups) < MaxGroups
    /\ \E g \in SpectrumGroups :
           /\ in_groups' = Append(in_groups, g)
           /\ n_spectra_so_far' = CountSpectra(n_spectra_so_far, g)
    /\ Abort("err", [kind |-> "write_error"])
    /\ UNCHANGED << sdrf_headers, headers, samples, index, stdin_opened,
                    reader, in_meta, out_started, out_meta, out_groups,
                    reported_total, fieldVars >>

\* write_passthrough: the stream is exhausted; the total is logged.
WriteEnd ==
    /\ pc = "write_loop" /\ status = "running"
    /\ reported_total' = n_spectra_so_far
    /\ status' = "ok"
    /\ pc' = "exit"
    /\ UNCHANGED << cause, sdrf_headers, headers, samples, index,
                    stdin_opened, reader, in_meta, in_groups, out_started,
                    out_meta, out_groups, n_spectra_so_far, fieldVars >>

Next ==
    \/ ReadHeaders
    \/ ReadRecord
    \/ ReadRecordError
    \/ ReadEnd
    \/ OrganizeSamples
    \/ OpenReader
    \/ PickSamples
    \/ PatchSampleList
    \/ WriteStart
    \/ WriteGroup
    \/ WriteGroupError
    \/ WriteEnd

Spec == Init /\ [][Next]_vars
(***************************************************************************)
(* One column name and one cell, taken through the match of read_sdrf,     *)
(* SDRFField::name and SDRFField::as_param.                                *)
(***************************************************************************)
\* Texts between the brackets of a column name.
FieldBodies ==
    {NameTable[k].name : k \in 1..Len(NameTable)}
        \cup {STR_label, STR_data_file, STR_instrument,
              << " " >> \o STR_organism \o << " " >>}
        \cup SeqUpTo({"a", " ", "[", "]"}, MaxBodyLen)

\* Column names: a class prefix or none, a text, a closing bracket or none.
FieldHeaders ==
    {p \o b \o c :
        p \in {<< >>, PFX_characteristics, PFX_characteristic, PFX_comment,
               PFX_factor_value},
        b \in FieldBodies,
        c \in {<< >>, << "]" >>, << " ", "]" >>}}

\* Cell texts: the isobaric tag codes, an unknown tag, numbers, no text.
FieldCells ==
    {LabelTable[k].code : k \in 1..Len(LabelTable)}
        \cup {STR_UNKNOWN_TAG, << >>, << "0", "7" >>, << "-", "3" >>}

RunIdle ==
    /\ pc = "idle"
    /\ status = "idle"
    /\ cause = NoCause
    /\ sdrf_headers = << >>
    /\ headers = << >>
    /\ samples = << >>
    /\ index = EmptyIndex
    /\ stdin_opened = FALSE
    /\ reader = NoMetadata
    /\ in_meta = NoMetadata
    /\ in_groups = << >>
    /\ out_started = FALSE
    /\ out_meta = NoMetadata
    /\ out_groups = << >>
    /\ n_spectra_so_far = 0
    /\ reported_total = -1

InitField ==
    /\ RunIdle
    /\ raw_header \in FieldHeaders
    /\ raw_cell \in FieldCells
    /\ field = NoField
    /\ fname = Pending
    /\ fparam = Pending
    /\ fpc = "classify"

\* read_sdrf: the column name is normalized and the cell becomes an SDRFField.
FieldClassify ==
    /\ fpc = "classify"
    /\ field' = MakeField(NormalizeHeader(raw_header), raw_cell)
    /\ fpc' = "name"
    /\ UNCHANGED << raw_header, raw_cell, fname, fparam, runVars >>

\* field.name()
FieldName ==
    /\ fpc = "name"
    /\ fname' = Name(field)
    /\ fpc' = "as_param"
    /\ UNCHANGED << raw_header, raw_cell, field, fparam, runVars >>

\* field.as_param()
FieldAsParam ==
    /\ fpc = "as_param"
    /\ fparam' = AsParam(field)
    /\ fpc' = "done"
    /\ UNCHANGED << raw_header, raw_cell, field, fname, runVars >>

NextField ==
    \/ FieldClassify
    \/ FieldName
    \/ FieldAsParam

SpecField == InitField /\ [][NextField]_vars
(***************************************************************************)
(* What the specification calls the canonical name of a column: the text   *)
(* between the class prefix and the closing bracket, trimmed; the column   *)
(* name itself for a column of no class.                                   *)
(***************************************************************************)
ClassPrefixes ==
    << [prefix |-> PFX_characteristics, class |-> "Characteristic"],
       [prefix |-> PFX_characteristic, class |-> "Characteristic"],
       [prefix |-> PFX_comment, class |-> "Comment"],
       [prefix |-> PFX_factor_value, class |-> "Factor"] >>

HasClassPrefix(h) == \E k \in 1..4 : StartsWith(h, ClassPrefixes[k].prefix)

PrefixOf(h) ==
    ClassPrefixes[CHOOSE k \in 1..4 : StartsWith(h, ClassPrefixes[k].prefix)]

\* h reads <prefix><x>] for one of the class prefixes.
IsBracketed(h) == HasClassPrefix(h) /\ h[Len(h)] = "]"

\* The <x> of a bracketed column name.
Bracketed(h) == SubSeq(h, Len(PrefixOf(h).prefix) + 1, Len(h) - 1)

\* h has a class prefix and no closing bracket after it.
IsUnterminated(h) ==
    /\ HasClassPrefix(h)
    /\ \A i \in (Len(PrefixOf(h).prefix) + 1)..Len(h) : h[i] # "]"

CanonicalName(h) == IF IsBracketed(h) THEN Trim(Bracketed(h)) ELSE h

KnownNames == {NameTable[k].name : k \in 1..Len(NameTable)}

TagCodes == {LabelTable[k].code : k \in 1..Len(LabelTable)}

(***************************************************************************)
(* Claims on one field, checked under SpecField.                           *)
(***************************************************************************)
\* C6: a column name characteristics[<x>] or characteristic[<x>] yields class
\* Characteristic, comment[<x>] yields Comment and factor value[<x>] yields
\* Factor, each with the canonical name <x> trimmed.
C6_BracketedNameIsTrimmedContent ==
    (fpc \in {"as_param", "done"} /\ IsBracketed(raw_header))
        => /\ field.field_class = PrefixOf(raw_header).class
           /\ fname = [ok |-> TRUE, val |-> Trim(Bracketed(raw_header))]

\* C8: a field whose canonical name is "label" maps a known isobaric tag code
\* to the fixed term of that tag with an empty value, and any other value to
\* the user parameter with key "label" and the original value.
C8_LabelMapsTagOrFallsBack ==
    (fpc = "done" /\ ~IsUnterminated(raw_header)
                  /\ CanonicalName(raw_header) = STR_label)
        => IF raw_cell \in TagCodes
           THEN LET e == LabelTable[CHOOSE k \in 1..Len(LabelTable) :
                                       LabelTable[k].code = raw_cell]
                IN  fparam = [ok |-> TRUE,
                              val |-> [kind |-> "cvParam", cv |-> "MS",
                                       accession |-> e.accession,
                                       name |-> e.name, value |-> ValueEmpty]]
           ELSE fparam = [ok |-> TRUE,
                          val |-> [kind |-> "userParam", name |-> STR_label,
                                   value |-> ParseValue(raw_cell)]]

\* C10: every field maps to exactly one parameter: the controlled term of its
\* canonical name, carrying the row value, when that name is one of the
\* fourteen known names, whatever the class of the field; a user parameter
\* with the column name as key and the row value otherwise.
C10_MapperIsTableDrivenAndTotal ==
    fpc = "done"
        => /\ fparam.ok
           /\ LET c == CanonicalName(field.name)
              IN  IF c \in KnownNames
                  THEN LET e == NameTable[CHOOSE k \in 1..Len(NameTable) :
                                             NameTable[k].name = c]
                       IN  fparam.val = [kind |-> "cvParam", cv |-> e.cv,
                                         accession |-> e.accession,
                                         name |-> c, value |-> field.value]
                  ELSE (~(c = STR_label /\ raw_cell \in TagCodes))
                           => fparam.val = [kind |-> "userParam",
                                            name |-> field.name,
                                            value |-> field.value]
(***************************************************************************)
(* Claims on a run of main(), checked under Spec.                          *)
(***************************************************************************)
\* organize_by_data_file has been called, and has returned or panicked.
OrganizeRan ==
    \/ pc \in {"open_reader", "pick_samples", "update_sample_list",
               "write_start", "write_loop", "exit"}
    \/ pc = "organize" /\ status = "panic"

\* update_sample_list has been called, and has returned or panicked.
PatchRan ==
    \/ pc \in {"write_start", "write_loop", "exit"}
    \/ pc = "update_sample_list" /\ status = "panic"

\* The row has a comment whose canonical name is "data file".
HasDataFileComment(s) ==
    \E i \in 1..Len(s.comments) :
        CanonicalName(s.comments[i].name) = STR_data_file

\* The "data file" value of such a row.
DataFileOf(s) ==
    LET i == CHOOSE i \in 1..Len(s.comments) :
                 /\ CanonicalName(s.comments[i].name) = STR_data_file
                 /\ \A j \in 1..(i - 1) :
                        CanonicalName(s.comments[j].name) # STR_data_file
    IN  AsStr(s.comments[i].value)

RowsOf(ss, k) ==
    LET InGroup(s) == HasDataFileComment(s) /\ DataFileOf(s) = k
    IN  SelectSeq(ss, InGroup)

RECURSIVE SumOfSizes(_, _)
SumOfSizes(idx, keys) ==
    IF keys = {} THEN 0
    ELSE LET k == CHOOSE k \in keys : TRUE
         IN  Len(idx[k]) + SumOfSizes(idx, keys \ {k})

\* C1: when every row carries a "data file" comment, organize_by_data_file
\* returns a mapping whose group sizes sum to the number of rows, in which
\* every row is in exactly one group, under the key equal to its "data file"
\* value, and the rows of a group keep their input order.
C1_GroupsPartitionRows ==
    (OrganizeRan /\ \A i \in 1..Len(samples) : HasDataFileComment(samples[i]))
        => /\ status # "panic" \/ pc # "organize"
           /\ DOMAIN index = {DataFileOf(samples[i]) : i \in 1..Len(samples)}
           /\ \A k \in DOMAIN index : index[k] = RowsOf(samples, k)
           /\ SumOfSizes(index, DOMAIN index) = Len(samples)

\* C4: when a row has no "data file" comment, grouping ends in a
\* MissingAssociationError that names the row, and no index is returned; the
\* row is never dropped while the other rows are grouped.
C4_MissingDataFileIsReported ==
    (OrganizeRan /\ \E i \in 1..Len(samples) : ~HasDataFileComment(samples[i]))
        => /\ pc = "organize"
           /\ index = EmptyIndex
           /\ status = "err"
           /\ cause.kind = "MissingAssociationError"
           /\ cause.row \in {i \in 1..Len(samples) :
                                ~HasDataFileComment(samples[i])}

\* C7: a table with a column name that has no closing bracket never gets
\* through the table read: the read ends in a TableFormatError, neither in
\* rows returned nor in a crash at a later phase.
C7_UnterminatedHeaderFailsTheRead ==
    (\E i \in 1..Len(sdrf_headers) : IsUnterminated(sdrf_headers[i]))
        => /\ pc \in {"read_headers", "read_records"}
           /\ status # "panic"

\* The fields of a row in the order as_sample visits them.
AllFields(s) == s.fields \o s.characteristics \o s.comments \o s.factors

\* The fields whose canonical name is neither "data file" nor "instrument".
KeptFields(s) ==
    LET Kept(f) == CanonicalName(f.name) \notin {STR_data_file, STR_instrument}
    IN  SelectSeq(AllFields(s), Kept)

\* The rows main() picked: those of the first declared source file.
PickedRows == index[Head(in_meta.source_files)]

\* C9: the params of a built sample are the mapped fields of its row in the
\* order Innate, Characteristic, Comment, Factor, without exactly the fields
\* whose canonical name is "data file" or "instrument", whatever their class.
C9_ParamsAreTheKeptFieldsInOrder ==
    PatchRan
        => /\ status # "panic"
           /\ Len(reader.samples) = Len(PickedRows)
           /\ \A i \in 1..Len(PickedRows) :
                  reader.samples[i].params =
                      [j \in 1..Len(KeptFields(PickedRows[i])) |->
                           AsParam(KeptFields(PickedRows[i])[j]).val]

\* The samples built from the picked rows, one per row, in row order.
BuiltSamples == [i \in 1..Len(PickedRows) |-> AsSample(PickedRows[i]).val]

\* C2: after the patch the sample list is exactly the samples built from the
\* group of the first declared source file, one per row in row order, and
\* holds none of the samples declared before, whatever they were.
C2_PatchReplacesTheSampleList ==
    pc \in {"write_start", "write_loop", "exit"}
        => /\ reader.samples = BuiltSamples
           /\ \A i \in 1..Len(reader.samples) :
                  \A j \in 1..Len(in_meta.samples) :
                      reader.samples[i] # in_meta.samples[j]

\* C2 witness: a header that declared a sample is patched with two rows.
C2_Witness ==
    /\ pc = "write_start"
    /\ in_meta.samples # << >>
    /\ Len(PickedRows) = 2
    /\ Len(reader.samples) = 2

RECURSIVE TotalSpectra(_)
TotalSpectra(gs) ==
    IF gs = << >> THEN 0 ELSE Head(gs).total_spectra + TotalSpectra(Tail(gs))

\* C3: in a run that completes without error the groups written are the
\* groups read, in the same order, each once; the reported total is the
\* number of spectra read; and the metadata written differs from the
\* metadata read in the sample list only.
C3_PassthroughFidelity ==
    status = "ok"
        => /\ out_groups = in_groups
           /\ reported_total = TotalSpectra(in_groups)
           /\ out_meta = [in_meta EXCEPT !.samples = BuiltSamples]

\* C3 witness: a run that completed after two different groups, with a
\* sample list that differs from the one read.
C3_Witness ==
    /\ status = "ok"
    /\ Len(in_groups) >= 2
    /\ in_groups[1] # in_groups[2]
    /\ out_meta.samples # in_meta.samples

\* C5: a run ended by a row without "data file" has not begun to read the
\* container; a run ended by a container with no source file, or with no
\* sample group for its first source file, has written no content and no
\* output; the writer starts only after the sample list has been replaced.
C5_FailFastOrdering ==
    /\ cause.kind = "panic_data_file_unwrap"
           => ~stdin_opened /\ in_groups = << >> /\ ~out_started
    /\ cause.kind \in {"panic_source_file_unwrap", "panic_get_unwrap"}
           => ~out_started /\ out_groups = << >> /\ in_groups = << >>
    /\ out_started
           => pc \in {"write_loop", "exit"} /\ reader.samples = BuiltSamples

\* C5 witness: a run with rows ended because the first source file of the
\* container has no sample group.
C5_Witness ==
    /\ status = "panic"
    /\ cause.kind = "panic_get_unwrap"
    /\ stdin_opened
    /\ samples # << >>
====
